---- MODULE Spec2Model ----
(***************************************************************************)
(* prox2vmx: translation of a Proxmox VM descriptor into a VMX descriptor  *)
(* (process_conf) and the sequential disk conversion run (main,            *)
(* convert_disk_file).                                                     *)
(*                                                                         *)
(* Text is modelled as a sequence of tokens.  A token is a piece of the    *)
(* text that no pattern of the program cuts in two: the comma, a literal   *)
(* the program searches for ("uuid=", ".qcow2", "bridge=", "virtio="...)   *)
(* or a run of other characters ("vol", "opt", "MAC").  split, startswith, *)
(* `in` and re.search then work on tokens as they work on characters.      *)
(***************************************************************************)
EXTENDS Integers, Sequences, FiniteSets, TLC

VARIABLES
    \* process_conf
    cfg, preserve_mac, pcm, pos, disk_id, vmx_cfg, convert_tasks,
    \* main and convert_disk_file
    pc, ti, raised, out_dir, path_state, results, vmx_file,
    current_progress, progress,
    \* the converter children, their pipe and the images they leave
    procs, towrite, pipe, written, images

mapvars == <<cfg, preserve_mac, pcm, pos, disk_id, vmx_cfg, convert_tasks>>
runvars == <<pc, ti, raised, out_dir, path_state, results, vmx_file,
             current_progress, progress>>
childvars == <<procs, towrite, pipe, written, images>>
vars == <<mapvars, runvars, childvars>>

\* Longest source descriptor (number of entries read from the .conf file).
MaxEntries == 2
\* Most disks of a descriptor whose conversion run is followed.
MaxDisks == 2
\* Most bytes a converter child writes to its output.
MaxOut == 2

Min(S) == CHOOSE x \in S : \A y \in S : x <= y

---------------------------------------------------------------------------
(* Python str operations, on token sequences *)

StartsWith(s, p) == Len(s) >= Len(p) /\ SubSeq(s, 1, Len(p)) = p

Contains(s, tok) == \E i \in 1..Len(s) : s[i] = tok

IndexOf(s, tok) == Min({i \in 1..Len(s) : s[i] = tok})

\* s.split(sep)[0]
SplitHead(s, sep) ==
    IF Contains(s, sep) THEN SubSeq(s, 1, IndexOf(s, sep) - 1) ELSE s

\* s.split(sep)[1], for s that contains sep
SplitSecond(s, sep) ==
    SplitHead(SubSeq(s, IndexOf(s, sep) + 1, Len(s)), sep)

\* re.search(r"(?:n1|n2|...)=([^,]+)", s): the leftmost name token followed
\* by at least one token that is not a comma; group(1) is the run of
\* non-comma tokens after it.
ReSearch(names, s) ==
    LET hits == {i \in 1..Len(s) : s[i] \in names /\ i < Len(s) /\ s[i+1] # ","}
    IN  IF hits = {}
        THEN [matched |-> FALSE, group |-> <<>>]
        ELSE [matched |-> TRUE,
              group |-> SplitHead(SubSeq(s, Min(hits) + 1, Len(s)), ",")]

---------------------------------------------------------------------------
(* Python dict: an insertion-ordered sequence of [k, v] items *)

DictHas(d, k) == \E i \in 1..Len(d) : d[i].k = k

DictGet(d, k, default) ==
    IF DictHas(d, k) THEN d[CHOOSE i \in 1..Len(d) : d[i].k = k].v ELSE default

DictSet(d, k, v) ==
    IF DictHas(d, k)
    THEN [i \in 1..Len(d) |-> IF d[i].k = k THEN [k |-> k, v |-> v] ELSE d[i]]
    ELSE Append(d, [k |-> k, v |-> v])

---------------------------------------------------------------------------
(* Keys *)

\* A source key: its leading name and its numeric suffix ("scsi3" is
\* scsi/3); n = NoIdx when the key carries no digits ("bios").
NoIdx == -1
Key(base, n) == [base |-> base, n |-> n]

\* A destination key: "sata0:1.fileName" is sata0/1/fileName,
\* "ethernet2.address" is ethernet/2/address, "sata0.present" is
\* sata0/NoIdx/present.
VK(obj, slot, attr) == [obj |-> obj, slot |-> slot, attr |-> attr]

GUESTOS_MAP ==
    [t \in {"win11", "win10", "win8", "win7", "w2k8", "wxp", "l26", "l24"} |->
        CASE t = "win11" -> "windows2019srvNext-64"
          [] t = "win10" -> "windows2019srv-64"
          [] t = "win8"  -> "windows8srv-64"
          [] t = "win7"  -> "windows7srv-64"
          [] t = "w2k8"  -> "longhorn-64"
          [] t = "wxp"   -> "winNetEnterprise-64"
          [] t = "l26"   -> "otherlinux-64"
          [] t = "l24"   -> "other24xlinux-64"]

\* GUESTOS_MAP.get(cfg.get("ostype", ""), "other-64")
GuestOS(ostype) ==
    IF Len(ostype) = 1 /\ ostype[1] \in DOMAIN GUESTOS_MAP
    THEN <<GUESTOS_MAP[ostype[1]]>>
    ELSE <<"other-64">>

NicModels == {"virtio=", "e1000=", "e1000e=", "vmxnet3=", "rtl8139="}

---------------------------------------------------------------------------
(* process_conf *)

\* re.match(r"^(sata|scsi|efidisk)\d", key)
MatchesDisk(key) == key.base \in {"sata", "scsi", "efidisk"} /\ key.n # NoIdx

\* re.match(r"^net\d", key)
MatchesNet(key) == key.base = "net" /\ key.n # NoIdx

IsCdromNever(entry) == FALSE
\* entry.startswith("none,media=cdrom")
IsCdrom(entry) == StartsWith(entry, <<"none", ",", "media=cdrom">>)

\* dev = "sata0", or "scsi0" when the key matches ^scsi\d
DevFor(key) == IF key.base = "scsi" /\ key.n # NoIdx THEN "scsi0" ELSE "sata0"

SlotIndexFromKey(ids, dev, key) == key.n
\* the slot a disk gets: disk_id[dev]
SlotIndex(ids, dev, key) == ids[dev]

\* f"{vm_name}-{dev}-disk-{disk_id[dev]}.vmdk"
VmdkName(vm_name, dev, slot) ==
    vm_name \o <<"-", dev, "-disk-", ToString(slot), ".vmdk">>

\* ".qcow2" in entry or ".vmdk" in entry or ".raw" in entry
IsConvertible(entry) ==
    Contains(entry, ".qcow2") \/ Contains(entry, ".vmdk") \/ Contains(entry, ".raw")

\* the uuid.bios value: cfg["smbios1"].split("uuid=")[1]
BiosUuid(smbios1) == SplitSecond(smbios1, "uuid=")

\* lines 92-113: the attributes written before the loop over the entries
Prelude(c) ==
    LET vm_name == DictGet(c, Key("name", NoIdx), <<>>)
        v1 == DictSet(<<>>, VK(".encoding", NoIdx, ""), <<"UTF-8">>)
        v2 == DictSet(v1, VK("displayName", NoIdx, ""), vm_name)
        v3 == DictSet(v2, VK("numvcpus", NoIdx, ""),
                      DictGet(c, Key("cores", NoIdx), <<"1">>))
        v4 == DictSet(v3, VK("memsize", NoIdx, ""),
                      DictGet(c, Key("memory", NoIdx), <<"4096">>))
        v5 == DictSet(v4, VK("guestOS", NoIdx, ""),
                      GuestOS(DictGet(c, Key("ostype", NoIdx), <<>>)))
        v6 == DictSet(v5, VK("tools", NoIdx, "syncTime"), <<"TRUE">>)
        v7 == DictSet(v6, VK("virtualHW", NoIdx, "version"), <<"19">>)
        v8 == DictSet(v7, VK("config", NoIdx, "version"), <<"8">>)
        efi == \/ DictGet(c, Key("bios", NoIdx), <<>>) = <<"ovmf">>
               \/ DictHas(c, Key("efidisk", 0))
        v9 == IF efi
              THEN DictSet(DictSet(v8, VK("firmware", NoIdx, ""), <<"efi">>),
                           VK("efi", NoIdx, "present"), <<"TRUE">>)
              ELSE v8
        smb == DictGet(c, Key("smbios", 1), <<>>)
        v10 == IF DictHas(c, Key("smbios", 1)) /\ Contains(smb, "uuid=")
               THEN DictSet(v9, VK("uuid", NoIdx, "bios"), BiosUuid(smb))
               ELSE v9
    IN  [vmx |-> v10, tasks |-> <<>>, ids |-> [sata0 |-> 0, scsi0 |-> 0]]

\* lines 120-137: one disk entry that is not an empty CD-ROM drive
DiskBody(st, vm_name, key, entry) ==
    LET dev == DevFor(key)
        v1 == IF dev = "scsi0"
              THEN DictSet(st.vmx, VK("scsi0", NoIdx, "virtualDev"), <<"lsilogic">>)
              ELSE st.vmx
        v2 == DictSet(v1, VK(dev, NoIdx, "present"), <<"TRUE">>)
        file == SplitHead(entry, ",")
        slot == SlotIndex(st.ids, dev, key)
        vmdk_name == VmdkName(vm_name, dev, slot)
        tasks == IF IsConvertible(entry)
                 THEN Append(st.tasks, [disk_file |-> file, vmdk_name |-> vmdk_name])
                 ELSE st.tasks
        v3 == DictSet(v2, VK(dev, slot, "present"), <<"TRUE">>)
        v4 == DictSet(v3, VK(dev, slot, "fileName"), vmdk_name)
    IN  [vmx |-> v4, tasks |-> tasks, ids |-> [st.ids EXCEPT ![dev] = @ + 1]]

AddressTypeAlwaysVpx(pm) == <<"vpx">>
\* the final ethernetN.addressType: "vpx", overridden by "static" under
\* preserve_mac
AddressType(pm) == IF pm THEN <<"static">> ELSE <<"vpx">>

\* lines 140-150: one network entry
NetBody(st, pm, key, entry) ==
    LET nic_id == key.n
        m == ReSearch(NicModels, entry)
        n == ReSearch({"bridge="}, entry)
        v1 == DictSet(st.vmx, VK("ethernet", nic_id, "addressType"), <<"vpx">>)
        v2 == DictSet(v1, VK("ethernet", nic_id, "present"), <<"TRUE">>)
        v3 == DictSet(v2, VK("ethernet", nic_id, "networkName"),
                      IF n.matched THEN n.group ELSE <<"unknown">>)
        v4 == IF pm
              THEN DictSet(DictSet(v3, VK("ethernet", nic_id, "address"),
                                   IF m.matched THEN m.group ELSE <<>>),
                           VK("ethernet", nic_id, "addressType"), AddressType(pm))
              ELSE v3
    IN  [st EXCEPT !.vmx = v4]

\* lines 115-150: the body of the loop for one (key, entry)
LoopBody(st, vm_name, pm, key, entry) ==
    IF MatchesDisk(key) /\ IsCdrom(entry)
    THEN st
    ELSE LET s1 == IF MatchesDisk(key) THEN DiskBody(st, vm_name, key, entry) ELSE st
         IN  IF MatchesNet(key) THEN NetBody(s1, pm, key, entry) ELSE s1

RECURSIVE LoopFrom(_, _, _, _)
LoopFrom(st, c, pm, i) ==
    IF i > Len(c) THEN st
    ELSE LoopFrom(LoopBody(st, DictGet(c, Key("name", NoIdx), <<>>), pm,
                           c[i].k, c[i].v), c, pm, i + 1)

\* process_conf(cfg, preserve_mac) as a whole
ProcessConf(c, pm) == LoopFrom(Prelude(c), c, pm, 1)

---------------------------------------------------------------------------
(* Source descriptors *)

CdromEntry   == <<"none", ",", "media=cdrom">>
CdromOptEntry == <<"none", ",", "media=cdrom", ",", "opt">>
ImageEntry   == <<"vol", ".qcow2", ",", "opt">>
LvmEntry     == <<"vol", ",", "opt">>
OptExtEntry  == <<"vol", ",", "opt", ".raw">>

DiskKeys == {Key("sata", 0), Key("scsi", 0), Key("scsi", 3), Key("efidisk", 0)}
DiskValues == {CdromEntry, CdromOptEntry, ImageEntry, LvmEntry, OptExtEntry}

NetKeys == {Key("net", 0), Key("net", 1)}
NetValues == {<<"virtio=", "MAC", ",", "bridge=", "br">>,
              <<"e1000e=", "MAC">>,
              <<"virtio=", ",", "bridge=">>,
              <<"opt">>}

SmbiosValues == {<<"uuid=", "U">>, <<"uuid=", "U", ",", "opt">>, <<"opt">>}
BiosValues == {<<"ovmf">>, <<"seabios">>}

Items ==
    {[k |-> k, v |-> v] : k \in DiskKeys, v \in DiskValues}
    \cup {[k |-> k, v |-> v] : k \in NetKeys, v \in NetValues}
    \cup {[k |-> Key("smbios", 1), v |-> v] : v \in SmbiosValues}
    \cup {[k |-> Key("bios", NoIdx), v |-> v] : v \in BiosValues}

\* parse_conf yields a dict: the keys are distinct
DistinctKeys(c) == \A i, j \in 1..Len(c) : i # j => c[i].k # c[j].k

Descriptors(max) ==
    {c \in UNION {[1..n -> Items] : n \in 0..max} : DistinctKeys(c)}

\* main, line 183: cfg["name"] is set before process_conf is called
WithName(c) == DictSet(c, Key("name", NoIdx), <<"vm">>)

---------------------------------------------------------------------------
(* process_conf, one loop iteration per step *)

TaskIds == 1..MaxDisks

NoProc == [state |-> "none", status |-> 0]

\* the state in which main and the children are not running
RunIdle ==
    /\ pc = "idle"
    /\ ti = 0
    /\ raised = "none"
    /\ out_dir = FALSE
    /\ path_state = [t \in TaskIds |-> "none"]
    /\ results = [t \in TaskIds |-> "none"]
    /\ vmx_file = [written |-> FALSE, content |-> <<>>]
    /\ current_progress = <<>>
    /\ progress = <<>>
    /\ procs = [t \in TaskIds |-> NoProc]
    /\ towrite = <<>>
    /\ pipe = <<>>
    /\ written = <<>>
    /\ images = {}

InitMap ==
    /\ cfg \in {WithName(c) : c \in Descriptors(MaxEntries)}
    /\ preserve_mac \in BOOLEAN
    /\ pcm = "start"
    /\ pos = 1
    /\ disk_id = [sata0 |-> 0, scsi0 |-> 0]
    /\ vmx_cfg = <<>>
    /\ convert_tasks = <<>>
    /\ RunIdle

MapState == [vmx |-> vmx_cfg, tasks |-> convert_tasks, ids |-> disk_id]

SetMapState(st) ==
    /\ vmx_cfg' = st.vmx
    /\ convert_tasks' = st.tasks
    /\ disk_id' = st.ids

Iterate ==
    /\ SetMapState(LoopBody(MapState, DictGet(cfg, Key("name", NoIdx), <<>>),
                            preserve_mac, cfg[pos].k, cfg[pos].v))
    /\ pos' = pos + 1
    /\ UNCHANGED <<cfg, preserve_mac, pcm, runvars, childvars>>

ProcessConfStart ==
    /\ pcm = "start"
    /\ SetMapState(Prelude(cfg))
    /\ pcm' = "loop"
    /\ UNCHANGED <<cfg, preserve_mac, pos, runvars, childvars>>

LoopCdrom ==
    /\ pcm = "loop" /\ pos <= Len(cfg)
    /\ MatchesDisk(cfg[pos].k) /\ IsCdrom(cfg[pos].v)
    /\ Iterate

LoopDisk ==
    /\ pcm = "loop" /\ pos <= Len(cfg)
    /\ MatchesDisk(cfg[pos].k) /\ ~IsCdrom(cfg[pos].v)
    /\ Iterate

LoopNet ==
    /\ pcm = "loop" /\ pos <= Len(cfg)
    /\ ~MatchesDisk(cfg[pos].k) /\ MatchesNet(cfg[pos].k)
    /\ Iterate

LoopOther ==
    /\ pcm = "loop" /\ pos <= Len(cfg)
    /\ ~MatchesDisk(cfg[pos].k) /\ ~MatchesNet(cfg[pos].k)
    /\ Iterate

ProcessConfReturn ==
    /\ pcm = "loop" /\ pos > Len(cfg)
    /\ pcm' = "done"
    /\ UNCHANGED <<cfg, preserve_mac, pos, disk_id, vmx_cfg, convert_tasks,
                   runvars, childvars>>

NextMap ==
    \/ ProcessConfStart
    \/ LoopCdrom
    \/ LoopDisk
    \/ LoopNet
    \/ LoopOther
    \/ ProcessConfReturn

SpecMap == InitMap /\ [][NextMap]_vars

---------------------------------------------------------------------------
(* main and convert_disk_file *)

\* the bytes of a child's output: carriage return, a printable character,
\* a blank, and a byte >= 0x80 (which bytes.decode() rejects on its own)
CR == "\\r"
NonAscii == "\\x80"
Bytes == {CR, "a", " ", NonAscii}
Outputs == UNION {[1..n -> Bytes] : n \in 0..MaxOut}

RECURSIVE LStrip(_)
LStrip(s) == IF s # <<>> /\ Head(s) = " " THEN LStrip(Tail(s)) ELSE s
RECURSIVE RStrip(_)
RStrip(s) ==
    IF s # <<>> /\ s[Len(s)] = " " THEN RStrip(SubSeq(s, 1, Len(s) - 1)) ELSE s
\* str.strip()
Strip(s) == RStrip(LStrip(s))

\* the descriptors whose run is followed: up to MaxDisks disks sata0,
\* sata1, ..., each a convertible image or a volume without extension
RunDescriptors ==
    UNION {[1..n -> {ImageEntry, LvmEntry}] : n \in 0..MaxDisks}
RunDescriptor(vs) == [i \in 1..Len(vs) |-> [k |-> Key("sata", i - 1), v |-> vs[i]]]

\* main at line 191: the descriptor is parsed and named, the VM is stopped
InitRun ==
    /\ cfg \in {WithName(RunDescriptor(vs)) : vs \in RunDescriptors}
    /\ preserve_mac \in BOOLEAN
    /\ pcm = "idle"
    /\ pos = 1
    /\ disk_id = [sata0 |-> 0, scsi0 |-> 0]
    /\ vmx_cfg = <<>>
    /\ convert_tasks = <<>>
    /\ pc = "makedirs"
    /\ ti = 0
    /\ raised = "none"
    /\ out_dir = FALSE
    /\ path_state = [t \in TaskIds |-> "none"]
    /\ results = [t \in TaskIds |-> "none"]
    /\ vmx_file = [written |-> FALSE, content |-> <<>>]
    /\ current_progress = <<>>
    /\ progress = <<>>
    /\ procs = [t \in TaskIds |-> NoProc]
    /\ towrite = <<>>
    /\ pipe = <<>>
    /\ written = <<>>
    /\ images = {}

\* os.makedirs(out_dir, exist_ok=True)
MakeDirs ==
    /\ pc = "makedirs"
    /\ out_dir' = TRUE
    /\ pc' = "process_conf"
    /\ UNCHANGED <<mapvars, childvars, ti, raised, path_state, results, vmx_file,
                   current_progress, progress>>

\* vmx_cfg, convert_tasks = process_conf(cfg, preserve_mac)
CallProcessConf ==
    /\ pc = "process_conf"
    /\ SetMapState(ProcessConf(cfg, preserve_mac))
    /\ ti' = 1
    /\ pc' = "for_task"
    /\ UNCHANGED <<cfg, preserve_mac, pcm, pos, childvars, raised, out_dir,
                   path_state, results, vmx_file, current_progress, progress>>

\* for task in convert_tasks: the next task, convert_disk_file is entered
NextTask ==
    /\ pc = "for_task" /\ ti <= Len(convert_tasks)
    /\ pc' = "pvesm"
    /\ current_progress' = <<>>
    /\ progress' = <<>>
    /\ written' = <<>>
    /\ UNCHANGED <<mapvars, ti, raised, out_dir, path_state, results, vmx_file,
                   procs, towrite, pipe, images>>

\* for task in convert_tasks: the list is exhausted
TasksDone ==
    /\ pc = "for_task" /\ ti > Len(convert_tasks)
    /\ pc' = "generate_vmx"
    /\ UNCHANGED <<mapvars, childvars, ti, raised, out_dir, path_state, results,
                   vmx_file, current_progress, progress>>

ResolveFailureIgnored(ok) == "exists"
\* subprocess.run(["pvesm", "path", ...], check=True): a non-zero exit
\* raises CalledProcessError, which nothing catches
ResolveBranch(ok) == IF ok THEN "exists" ELSE "aborted"

PvesmOk ==
    /\ pc = "pvesm"
    /\ path_state' = [path_state EXCEPT ![ti] = "resolved"]
    /\ pc' = ResolveBranch(TRUE)
    /\ UNCHANGED <<mapvars, childvars, ti, raised, out_dir, results, vmx_file,
                   current_progress, progress>>

PvesmFails ==
    /\ pc = "pvesm"
    /\ path_state' = [path_state EXCEPT ![ti] = "failed"]
    /\ pc' = ResolveBranch(FALSE)
    /\ raised' = IF pc' = "aborted" THEN "CalledProcessError" ELSE raised
    /\ UNCHANGED <<mapvars, childvars, ti, out_dir, results, vmx_file,
                   current_progress, progress>>

MissingPathConverted(exists) == "popen"
\* if not os.path.exists(disk_path): ... return None
ExistsBranch(exists) == IF exists THEN "popen" ELSE "for_task"

PathPresent ==
    /\ pc = "exists"
    /\ path_state' = [path_state EXCEPT ![ti] = "present"]
    /\ pc' = ExistsBranch(TRUE)
    /\ UNCHANGED <<mapvars, childvars, ti, raised, out_dir, results, vmx_file,
                   current_progress, progress>>

PathMissing ==
    /\ pc = "exists"
    /\ path_state' = [path_state EXCEPT ![ti] = "missing"]
    /\ pc' = ExistsBranch(FALSE)
    /\ IF pc' = "for_task"
       THEN /\ results' = [results EXCEPT ![ti] = "skipped"]
            /\ ti' = ti + 1
       ELSE UNCHANGED <<results, ti>>
    /\ UNCHANGED <<mapvars, childvars, raised, out_dir, vmx_file,
                   current_progress, progress>>

\* process = subprocess.Popen(command, stdout=PIPE, stderr=STDOUT)
Popen ==
    /\ pc = "popen"
    /\ \E out \in Outputs : towrite' = out
    /\ procs' = [procs EXCEPT ![ti] = [state |-> "alive", status |-> 0]]
    /\ pipe' = <<>>
    /\ written' = <<>>
    /\ current_progress' = <<>>
    /\ pc' = "poll"
    /\ UNCHANGED <<mapvars, ti, raised, out_dir, path_state, results, vmx_file,
                   progress, images>>

Alive == {t \in TaskIds : procs[t].state = "alive"}

\* qemu-img writes one byte of its output to the pipe
ChildWrite ==
    /\ \E t \in Alive :
          /\ towrite # <<>>
          /\ pipe' = Append(pipe, Head(towrite))
          /\ written' = Append(written, Head(towrite))
          /\ towrite' = Tail(towrite)
    /\ UNCHANGED <<mapvars, runvars, procs, images>>

\* qemu-img exits with status 0, leaving the image
ChildExitOk ==
    /\ \E t \in Alive :
          /\ towrite = <<>>
          /\ procs' = [procs EXCEPT ![t] = [state |-> "exited", status |-> 0]]
          /\ images' = images \cup {convert_tasks[t].vmdk_name}
    /\ UNCHANGED <<mapvars, runvars, towrite, pipe, written>>

\* qemu-img exits with a non-zero status
ChildExitFail ==
    /\ \E t \in Alive :
          /\ towrite = <<>>
          /\ procs' = [procs EXCEPT ![t] = [state |-> "exited", status |-> 1]]
    /\ UNCHANGED <<mapvars, runvars, towrite, pipe, written, images>>

PollIgnored(alive) == "drain"
\* while process.poll() is None
PollBranch(alive) == IF alive THEN "read" ELSE "drain"

Poll ==
    /\ pc = "poll"
    /\ pc' = PollBranch(procs[ti].state = "alive")
    /\ UNCHANGED <<mapvars, childvars, ti, raised, out_dir, path_state, results,
                   vmx_file, current_progress, progress>>

\* v = process.stdout.read(1) returns b"\r": the accumulator is printed
\* (stripped) and reset
ReadCR ==
    /\ pc = "read"
    /\ pipe # <<>> /\ Head(pipe) = CR
    /\ pipe' = Tail(pipe)
    /\ progress' = Append(progress, Strip(current_progress))
    /\ current_progress' = <<>>
    /\ pc' = "poll"
    /\ UNCHANGED <<mapvars, ti, raised, out_dir, path_state, results, vmx_file,
                   procs, towrite, written, images>>

\* read(1) returns an ASCII byte other than b"\r": it is accumulated
ReadChar ==
    /\ pc = "read"
    /\ pipe # <<>> /\ Head(pipe) \notin {CR, NonAscii}
    /\ pipe' = Tail(pipe)
    /\ current_progress' = Append(current_progress, Head(pipe))
    /\ pc' = "poll"
    /\ UNCHANGED <<mapvars, ti, raised, out_dir, path_state, results, vmx_file,
                   progress, procs, towrite, written, images>>

\* read(1) returns a byte >= 0x80: v.decode() raises UnicodeDecodeError
ReadNonAscii ==
    /\ pc = "read"
    /\ pipe # <<>> /\ Head(pipe) = NonAscii
    /\ pipe' = Tail(pipe)
    /\ raised' = "UnicodeDecodeError"
    /\ pc' = "aborted"
    /\ UNCHANGED <<mapvars, ti, out_dir, path_state, results, vmx_file,
                   current_progress, progress, procs, towrite, written, images>>

\* read(1) returns b"" at end of file (the child has exited, the pipe is
\* empty): nothing is accumulated.  While the child lives and the pipe is
\* empty, read(1) blocks.
ReadEOF ==
    /\ pc = "read"
    /\ pipe = <<>> /\ procs[ti].state # "alive"
    /\ pc' = "poll"
    /\ UNCHANGED <<mapvars, childvars, ti, raised, out_dir, path_state, results,
                   vmx_file, current_progress, progress>>

\* process.stdout.read(); process.stdout.close(); return basename
Drain ==
    /\ pc = "drain"
    /\ pipe' = <<>>
    /\ results' = [results EXCEPT ![ti] = "converted"]
    /\ ti' = ti + 1
    /\ pc' = "for_task"
    /\ UNCHANGED <<mapvars, raised, out_dir, path_state, vmx_file,
                   current_progress, progress, procs, towrite, written, images>>

\* generate_vmx(vmx_cfg, ...)
GenerateVmx ==
    /\ pc = "generate_vmx"
    /\ vmx_file' = [written |-> TRUE, content |-> vmx_cfg]
    /\ pc' = "done"
    /\ UNCHANGED <<mapvars, childvars, ti, raised, out_dir, path_state, results,
                   current_progress, progress>>

NextRun ==
    \/ MakeDirs
    \/ CallProcessConf
    \/ NextTask
    \/ TasksDone
    \/ PvesmOk
    \/ PvesmFails
    \/ PathPresent
    \/ PathMissing
    \/ Popen
    \/ ChildWrite
    \/ ChildExitOk
    \/ ChildExitFail
    \/ Poll
    \/ ReadCR
    \/ ReadChar
    \/ ReadNonAscii
    \/ ReadEOF
    \/ Drain
    \/ GenerateVmx

SpecRun == InitRun /\ [][NextRun]_vars

---------------------------------------------------------------------------
(* Properties of process_conf *)

MapDone == pcm = "done"

\* the controller family a disk key is routed to, and the disk entries of
\* the source descriptor that are not empty CD-ROM drives
FamilyOfKey(k) == IF k.base = "scsi" THEN "scsi0" ELSE "sata0"
DiskFamilyKey(k) == k.base \in {"sata", "scsi", "efidisk"}
CdromValue(v) == Len(v) >= 3 /\ v[1] = "none" /\ v[2] = "," /\ v[3] = "media=cdrom"
RealDisk(it) == DiskFamilyKey(it.k) /\ ~CdromValue(it.v)

\* how many real disks of the family of entry i precede entry i
RankInFamily(c, i) ==
    Cardinality({j \in 1..(i-1) :
        RealDisk(c[j]) /\ FamilyOfKey(c[j].k) = FamilyOfKey(c[i].k)})

DisksOfFamily(c, d) ==
    Cardinality({j \in 1..Len(c) : RealDisk(c[j]) /\ FamilyOfKey(c[j].k) = d})

SlotsOf(v, d) ==
    {v[i].k.slot : i \in {j \in 1..Len(v) : v[j].k.obj = d /\ v[j].k.attr = "fileName"}}

\* C3: the slot counter of a family never decreases; the N-th real disk
\* routed to a family (0-based, in source order) gets slot N, whatever the
\* suffix of its key; a family with k disks ends with slots 0..k-1.
C3_DenseSlots ==
    [][ /\ \A d \in {"sata0", "scsi0"} : disk_id'[d] >= disk_id[d]
        /\ (pcm = "loop" /\ pos' = pos + 1 /\ RealDisk(cfg[pos])) =>
              LET d == FamilyOfKey(cfg[pos].k)
                  N == RankInFamily(cfg, pos)
              IN  /\ ~DictHas(vmx_cfg, VK(d, N, "fileName"))
                  /\ DictHas(vmx_cfg', VK(d, N, "fileName"))
                  /\ SlotsOf(vmx_cfg', d) = SlotsOf(vmx_cfg, d) \cup {N}
                  /\ disk_id'[d] = N + 1
        /\ pcm' = "done" =>
              \A d \in {"sata0", "scsi0"} :
                  SlotsOf(vmx_cfg', d) = 0..(DisksOfFamily(cfg, d) - 1)
      ]_vars

\* C3 witness: scsi0 and scsi3 are both disks (scsi1, scsi2 absent) and the
\* second of them got slot 1.
C3_Witness ==
    /\ MapDone
    /\ DictHas(cfg, Key("scsi", 3)) /\ DictHas(cfg, Key("scsi", 0))
    /\ DictHas(vmx_cfg, VK("scsi0", 0, "fileName"))
    /\ DictHas(vmx_cfg, VK("scsi0", 1, "fileName"))

\* the descriptor without its i-th entry
Without(c, i) == SubSeq(c, 1, i - 1) \o SubSeq(c, i + 1, Len(c))

DropKeys(v, ks) == SelectSeq(v, LAMBDA it : it.k \notin ks)

FirmwareKeys == {VK("firmware", NoIdx, ""), VK("efi", NoIdx, "present")}

\* C4 as stated: with an empty CD-ROM entry under a sata/scsi/efidisk key,
\* the DestinationConfig and the task list are those of the descriptor
\* without that entry.
C4_CdromAsAbsent ==
    MapDone =>
        \A i \in 1..Len(cfg) :
            (DiskFamilyKey(cfg[i].k) /\ CdromValue(cfg[i].v)) =>
                LET r == ProcessConf(Without(cfg, i), preserve_mac)
                IN  vmx_cfg = r.vmx /\ convert_tasks = r.tasks

\* C4 amended: the task list and the slot counters are those of the
\* descriptor without the entry, and so is the DestinationConfig, except
\* that the key efidisk0, being present, still switches the firmware
\* attributes (firmware, efi.present) on.
C4_CdromAsAbsentButFirmware ==
    MapDone =>
        \A i \in 1..Len(cfg) :
            (DiskFamilyKey(cfg[i].k) /\ CdromValue(cfg[i].v)) =>
                LET r == ProcessConf(Without(cfg, i), preserve_mac)
                IN  /\ convert_tasks = r.tasks
                    /\ disk_id = r.ids
                    /\ IF cfg[i].k = Key("efidisk", 0)
                       THEN /\ DropKeys(vmx_cfg, FirmwareKeys) = DropKeys(r.vmx, FirmwareKeys)
                            /\ \A k \in FirmwareKeys : DictHas(vmx_cfg, k)
                       ELSE vmx_cfg = r.vmx

\* C4 witness: an empty CD-ROM drive under sata0 precedes a real disk, which
\* got slot 0 of its family.
C4_Witness ==
    /\ MapDone
    /\ \E i \in 1..Len(cfg) : \E j \in (i+1)..Len(cfg) :
          /\ cfg[i].k = Key("sata", 0) /\ CdromValue(cfg[i].v)
          /\ RealDisk(cfg[j]) /\ FamilyOfKey(cfg[j].k) = "sata0"
    /\ SlotsOf(vmx_cfg, "sata0") = {0}

ConvertibleExts == {".qcow2", ".vmdk", ".raw"}
Reference(v) == IF \E i \in 1..Len(v) : v[i] = ","
                THEN SubSeq(v, 1, Min({i \in 1..Len(v) : v[i] = ","}) - 1)
                ELSE v
RefHasExt(v) == \E i \in 1..Len(Reference(v)) : Reference(v)[i] \in ConvertibleExts
TaskDisk(it) == RealDisk(it) /\ RefHasExt(it.v)

\* C5 as stated: the tasks are, in order, the real disks whose backing
\* reference (the text before the first comma) contains a convertible
\* extension; each task names that reference and the fileName of its slot.
C5_TaskIffReferenceExt ==
    MapDone =>
        LET want == SelectSeq(cfg, TaskDisk)
        IN  /\ Len(convert_tasks) = Len(want)
            /\ \A t \in 1..Len(convert_tasks) :
                  /\ t <= Len(want) => convert_tasks[t].disk_file = Reference(want[t].v)
                  /\ \E i \in 1..Len(vmx_cfg) :
                        /\ vmx_cfg[i].k.attr = "fileName"
                        /\ vmx_cfg[i].v = convert_tasks[t].vmdk_name

\* C6 as stated: uuid.bios is the text after "uuid=" up to the next comma,
\* and is omitted when smbios1 is absent or holds no "uuid=".
C6_UuidUpToDelimiter ==
    MapDone =>
        LET has == DictHas(cfg, Key("smbios", 1))
            s == DictGet(cfg, Key("smbios", 1), <<>>)
            hasUuid == has /\ \E i \in 1..Len(s) : s[i] = "uuid="
            at == Min({i \in 1..Len(s) : s[i] = "uuid="})
        IN  IF hasUuid
            THEN /\ DictHas(vmx_cfg, VK("uuid", NoIdx, "bios"))
                 /\ DictGet(vmx_cfg, VK("uuid", NoIdx, "bios"), <<>>)
                       = Reference(SubSeq(s, at + 1, Len(s)))
            ELSE ~DictHas(vmx_cfg, VK("uuid", NoIdx, "bios"))

\* the value of the first comma-separated component of v that starts with
\* one of the names and has a non-empty value; <<"?">> when there is none
ComponentValue(v, names) ==
    LET starts == {i \in 1..Len(v) :
                      /\ v[i] \in names
                      /\ i = 1 \/ v[i-1] = ","
                      /\ i < Len(v) /\ v[i+1] # ","}
    IN  IF starts = {} THEN <<"?">>
        ELSE Reference(SubSeq(v, Min(starts) + 1, Len(v)))

\* C10: for every network entry netN, ethernetN.addressType is "vpx" with no
\* ethernetN.address when preserve_mac is off, and "static" with an
\* ethernetN.address (the MAC, or "" when no NIC model matched) when it is
\* on; ethernetN.networkName is the bridge, or "unknown".
C10_NetAddressing ==
    MapDone =>
        \A i \in 1..Len(cfg) :
            cfg[i].k.base = "net" =>
                LET N == cfg[i].k.n
                    mac == ComponentValue(cfg[i].v, NicModels)
                    br == ComponentValue(cfg[i].v, {"bridge="})
                    get(attr) == DictGet(vmx_cfg, VK("ethernet", N, attr), <<"absent">>)
                IN  /\ get("addressType") = IF preserve_mac THEN <<"static">> ELSE <<"vpx">>
                    /\ preserve_mac => get("address") = IF mac = <<"?">> THEN <<>> ELSE mac
                    /\ ~preserve_mac => ~DictHas(vmx_cfg, VK("ethernet", N, "address"))
                    /\ get("networkName") = IF br = <<"?">> THEN <<"unknown">> ELSE br

\* C10 witness: under preserve_mac a network entry without a NIC model and
\* without a bridge still got an (empty) address.
C10_Witness ==
    /\ MapDone /\ preserve_mac
    /\ \E i \in 1..Len(cfg) :
          /\ cfg[i].k.base = "net" /\ cfg[i].v = <<"opt">>
          /\ DictGet(vmx_cfg, VK("ethernet", cfg[i].k.n, "address"), <<"absent">>) = <<>>
          /\ DictGet(vmx_cfg, VK("ethernet", cfg[i].k.n, "networkName"), <<>>) = <<"unknown">>

---------------------------------------------------------------------------
(* Properties of the conversion run *)

Tasks == 1..Len(convert_tasks)
Started(t) == path_state[t] # "none"
Finished(t) == results[t] # "none"
FailedChild(t) == procs[t].state = "exited" /\ procs[t].status # 0

\* C1 as stated: once a converter child has exited with a non-zero status,
\* convert_disk_file does not return the destination name for its task and
\* the destination descriptor is not written.
C1_FailedChildAborts ==
    \A t \in TaskIds :
        FailedChild(t) => results[t] # "converted" /\ ~vmx_file.written

\* the carriage-return-terminated segments of an output; what follows the
\* last carriage return is left out
RECURSIVE CRSegments(_, _)
CRSegments(out, acc) ==
    IF out = <<>> THEN <<>>
    ELSE IF Head(out) = CR
         THEN <<acc>> \o CRSegments(Tail(out), <<>>)
         ELSE CRSegments(Tail(out), Append(acc, Head(out)))

\* C2 as stated: when the read loop of convert_disk_file has ended, the
\* progress updates it printed are the carriage-return-terminated segments
\* of everything the child wrote (each printed stripped), in order.
C2_UpdatesAreSegments ==
    pc = "drain" =>
        LET segs == CRSegments(written, <<>>)
        IN  progress = [i \in 1..Len(segs) |-> Strip(segs[i])]

\* C7: a task whose resolved path does not exist gets no child and no
\* image and is skipped without an exception; the loop moves on to the
\* next task, and a descriptor that is written holds the fileName of the
\* skipped disk.
C7_MissingSourceSkipped ==
    \A t \in TaskIds :
        path_state[t] = "missing" =>
            /\ procs[t].state = "none"
            /\ convert_tasks[t].vmdk_name \notin images
            /\ results[t] = "skipped"
            /\ ti = t + 1 \/ (ti > t + 1 /\ Started(t + 1))
            /\ raised # "none" => ti > t
            /\ (\A u \in Tasks : Finished(u)) => pc \in {"for_task", "generate_vmx", "done"}
            /\ pc = "done" =>
                  /\ vmx_file.written
                  /\ \E i \in 1..Len(vmx_file.content) :
                        /\ vmx_file.content[i].k.attr = "fileName"
                        /\ vmx_file.content[i].v = convert_tasks[t].vmdk_name

\* C7 witness: the first disk was skipped, the second one converted, and
\* the descriptor is written.
C7_Witness ==
    /\ pc = "done" /\ vmx_file.written
    /\ path_state[1] = "missing" /\ results[1] = "skipped"
    /\ Len(convert_tasks) >= 2 /\ results[2] = "converted"

\* C8: when the path resolution of a task fails, no child is started for
\* it, the run is aborted, no later task is started and the descriptor is
\* never written.
C8_ResolutionFailureAborts ==
    \A t \in TaskIds :
        path_state[t] = "failed" =>
            /\ procs[t].state = "none"
            /\ pc = "aborted" /\ raised = "CalledProcessError"
            /\ ti = t /\ results[t] = "none"
            /\ \A u \in TaskIds : u > t => ~Started(u) /\ procs[u].state = "none"
            /\ ~vmx_file.written

\* C8 witness: the first task was converted, the resolution of the second
\* failed.
C8_Witness ==
    /\ results[1] = "converted"
    /\ Len(convert_tasks) >= 2 /\ path_state[2] = "failed"
    /\ pc = "aborted"

\* C9: at most one converter child is alive; convert_disk_file returns only
\* after its child has exited; tasks start in list order, each after the
\* one before it has finished and after the output directory was made; the
\* descriptor is written only when every task has finished.
C9_Sequential ==
    /\ Cardinality(Alive) <= 1
    /\ \A t \in TaskIds :
          /\ results[t] = "converted" => procs[t].state = "exited"
          /\ Started(t) => /\ out_dir
                           /\ t \in Tasks
                           /\ \A u \in 1..(t-1) : Finished(u) /\ procs[u].state # "alive"
          /\ procs[t].state # "none" => path_state[t] = "present"
    /\ vmx_file.written => /\ \A t \in Tasks : Finished(t)
                           /\ Alive = {}
                           /\ out_dir

\* C9 witness: the child of the second task is alive after the child of
\* the first one has exited and its conversion has returned.
C9_Witness ==
    /\ Len(convert_tasks) >= 2
    /\ results[1] = "converted" /\ procs[1].state = "exited"
    /\ procs[2].state = "alive"

====
